---- MODULE Spec2Model ----
(***************************************************************************)
(* Price Ladder Viewer: the MarketData replay engine of                    *)
(* src/price_ladder_viewer/price_ladder_viewer.py.                         *)
(*                                                                         *)
(* Prices are integers counted in a unit of one third of a tick, so that   *)
(* a price can lie on a level, strictly inside half a tick of a level, or  *)
(* further away.  Python's 0-based row numbers are kept: row i of a        *)
(* dataframe or of the ladder is element i + 1 of the TLA+ sequence.       *)
(***************************************************************************)
EXTENDS Integers, Sequences, FiniteSets, TLC

(***************************************************************************)
(* Configuration (config.yaml, read through self._config).                 *)
(***************************************************************************)
TickSize == 3

(***************************************************************************)
(* Bounds of the model.                                                    *)
(***************************************************************************)
RowCount == 2
MaxQuotes == 2
MaxTrades == 2
MaxTime == 2
MaxPrice == 5
MaxVolume == 1

Times == 0..MaxTime
Prices == 0..MaxPrice
Volumes == 1..MaxVolume
BidSizes == {10}
AskSizes == {5}
\* A quote is locked (bid = ask) or one tick wide.
Spreads == {0, TickSize}

Rows == 0..(RowCount - 1)
Cols == 0..4

\* quotes_df, trades_df, price_ladder, price_ladder_df, quotes_row and
\* trades_row are the fields of MarketData.  returned is what the latest call
\* of get_next_price_ladder_df returned ("None" before any call, as
\* TableModel._price_ladder_df), stdout the rows printed so far, snapshots the
\* number of calls that returned the dataframe.  entry is a history variable:
\* the fields as they were when the latest call was entered, and which update
\* that call applied.
\*
\* worker is the place of the Worker thread in its loop over
\* TableModel.update_logic, gui the place of the GUI thread in
\* TableModel.data, mutex the holder of TableModel._mutex, and elapsed the
\* outcome of the latest call of get_price_ladder_time_elapsed.
VARIABLES quotes_df, trades_df, price_ladder, price_ladder_df,
          quotes_row, trades_row, returned, stdout, snapshots, entry,
          worker, gui, mutex, elapsed

vars == <<quotes_df, trades_df, price_ladder, price_ladder_df,
          quotes_row, trades_row, returned, stdout, snapshots, entry,
          worker, gui, mutex, elapsed>>

\* The variables of the two threads, which the engine alone never touches.
threads == <<worker, gui, mutex, elapsed>>

(***************************************************************************)
(* Python values.                                                          *)
(***************************************************************************)
None == << >>

\* str(n) of an integer.
Str(n) == ToString(n)

\* The largest integer a cell can hold: every trade volume added up.
MaxCell == MaxTrades * MaxVolume

\* int(s) of a cell written by Str.
IntOf(s) == CHOOSE n \in 0..MaxCell : Str(n) = s

\* Truth value of a string: the empty string is false.
Truthy(s) == s /= ""

Abs(x) == IF x < 0 THEN -x ELSE x

Max(a, b) == IF a > b THEN a ELSE b

\* The default rel_tol of math.isclose is 1e-09, abs_tol is 0.0.
RelTolInv == 1000000000

\* A faulty variant of IsClose: anything within half a tick is close.
IsCloseHalfTick(a, b) == 2 * Abs(a - b) < TickSize

\* math.isclose(a, b): abs(a - b) <= rel_tol * max(abs(a), abs(b)).  For an
\* integer difference d, d <= m / RelTolInv is d <= floor(m / RelTolInv).
IsClose(a, b) == Abs(a - b) <= Max(Abs(a), Abs(b)) \div RelTolInv

\* df.loc[row, ...]: the record at a 0-based row label.
Loc(df, row) == df[row + 1]

\* len(df.index)
Length(df) == Len(df)

(***************************************************************************)
(* The data the two queries of __init__ can return: every stream is        *)
(* ORDER BY time_value ASC.                                                *)
(***************************************************************************)
QuoteRecords ==
    { r \in { [time_value |-> t, bid_price |-> b, bid_size |-> bs,
               ask_price |-> a, ask_size |-> as] :
                t \in Times, b \in Prices, bs \in BidSizes,
                a \in Prices, as \in AskSizes } :
        r.ask_price - r.bid_price \in Spreads }

TradeRecords ==
    { [time_value |-> t, price |-> p, volume |-> v] :
        t \in Times, p \in Prices, v \in Volumes }

SeqsUpTo(S, n) == UNION { [1..k -> S] : k \in 0..n }

IsSortedByTime(s) ==
    \A i \in 1..(Len(s) - 1) : s[i].time_value <= s[i + 1].time_value

QuoteStreams == { s \in SeqsUpTo(QuoteRecords, MaxQuotes) : IsSortedByTime(s) }

TradeStreams == { s \in SeqsUpTo(TradeRecords, MaxTrades) : IsSortedByTime(s) }

\* pd.DataFrame('', range(row_count), range(5))
EmptyDf == [i \in Rows |-> [c \in Cols |-> ""]]

\* The outcome of a call: a value of some type returned, or an exception
\* raised.
Returns(type, value) == [raised |-> "", type |-> type, value |-> value]

Raises(exception) == [raised |-> exception, type |-> "", value |-> 0]

\* The fields a call finds, and the update it goes on to apply.
Entered(update) ==
    [applied |-> update,
     price_ladder |-> price_ladder,
     price_ladder_df |-> price_ladder_df,
     quotes_row |-> quotes_row,
     trades_row |-> trades_row]

Init ==
    /\ quotes_df \in QuoteStreams
    /\ trades_df \in TradeStreams
    /\ price_ladder = None
    /\ price_ladder_df = EmptyDf
    /\ quotes_row = 0
    /\ trades_row = 0
    /\ returned = "None"
    /\ stdout = << >>
    /\ snapshots = 0
    /\ entry = Entered("nothing")
    /\ worker = "idle"
    /\ gui = "idle"
    /\ mutex = "free"
    /\ elapsed = Returns("float", 0)

(***************************************************************************)
(* get_next_price_ladder_df: the end test and the choice of the stream.    *)
(***************************************************************************)
\* A faulty variant of EndOfData: "or" for "and".
EndOfEitherStream ==
    \/ quotes_row > Length(quotes_df) - 1
    \/ trades_row > Length(trades_df) - 1

EndOfData ==
    /\ quotes_row > Length(quotes_df) - 1
    /\ trades_row > Length(trades_df) - 1

\* A faulty variant of QuoteIsNext: the comparison turned round.
QuoteIsLater ==
    Loc(quotes_df, quotes_row).time_value > Loc(trades_df, trades_row).time_value

\* A faulty variant of QuoteIsNext: "<=" for "<".
QuoteIsNextOrTied ==
    Loc(quotes_df, quotes_row).time_value <= Loc(trades_df, trades_row).time_value

QuoteIsNext ==
    Loc(quotes_df, quotes_row).time_value < Loc(trades_df, trades_row).time_value

NextEvent ==
    IF quotes_row > Length(quotes_df) - 1 THEN "trade"
    ELSE IF trades_row > Length(trades_df) - 1 THEN "quote"
    ELSE IF QuoteIsNext THEN "quote"
    ELSE "trade"

\* A faulty variant of Advance: the cursor skips a record.
AdvanceTwice(row) == row + 2

\* self._quotes_row += 1, self._trades_row += 1
Advance(row) == row + 1

(***************************************************************************)
(* _update_quote                                                           *)
(***************************************************************************)
\* A faulty variant of AboveTop: the half tick of slack left out.
AboveTopExact(q) == q.ask_price > price_ladder[1]

\* .5 * tick_size is compared with both sides doubled.
AboveTop(q) == 2 * q.ask_price > 2 * price_ladder[1] + TickSize

BelowBottom(q) ==
    2 * q.bid_price < 2 * price_ladder[Len(price_ladder)] - TickSize

ResetNeeded(q) == quotes_row = 0 \/ AboveTop(q) \/ BelowBottom(q)

\* A faulty variant of MaxPriceFor: the half height rounded up.
MaxPriceForCeil(q) == q.ask_price + TickSize * (RowCount \div 2)

\* max_price of the new window.
MaxPriceFor(q) == q.ask_price + TickSize * ((RowCount - 1) \div 2)

\* np.linspace(start, stop, num)
Linspace(start, stop, num) ==
    [i \in 1..num |->
        IF num = 1 THEN start
        ELSE start + (i - 1) * ((stop - start) \div (num - 1))]

NewLadder(q) ==
    Linspace(MaxPriceFor(q), MaxPriceFor(q) - (RowCount - 1) * TickSize,
             RowCount)

\* config['price_format'].format(x): the pattern '{}' over the price.
PriceFormat(x) == ToString(x)

\* A faulty variant of ResetDf: the labels of column 2 are not written.
ResetDfNoLabels(ladder) == [i \in Rows |-> [c \in Cols |-> ""]]

\* Columns 0, 1, 3, 4 = '' and column 2 = the labels of the ladder.
ResetDf(ladder) ==
    [i \in Rows |-> [c \in Cols |->
        IF c = 2 THEN PriceFormat(ladder[i + 1]) ELSE ""]]

\* A faulty variant of QuoteRow: the aggregates of the row are emptied too.
QuoteRowClearsAggregates(row, level, q) ==
    [row EXCEPT
        ![0] = "",
        ![4] = "",
        ![3] = IF IsClose(level, q.ask_price) THEN Str(q.ask_size) ELSE "",
        ![1] = IF IsClose(level, q.bid_price) THEN Str(q.bid_size) ELSE ""]

\* A faulty variant of QuoteRow: a size is written where the price matches and
\* left as it was elsewhere.
QuoteRowKeepsStale(row, level, q) ==
    [row EXCEPT
        ![3] = IF IsClose(level, q.ask_price) THEN Str(q.ask_size) ELSE row[3],
        ![1] = IF IsClose(level, q.bid_price) THEN Str(q.bid_size) ELSE row[1]]

\* The loop over the rows that writes columns 3 and 1.
QuoteRow(row, level, q) ==
    [row EXCEPT
        ![3] = IF IsClose(level, q.ask_price) THEN Str(q.ask_size) ELSE "",
        ![1] = IF IsClose(level, q.bid_price) THEN Str(q.bid_size) ELSE ""]

QuoteCells(df, ladder, q) ==
    [i \in Rows |-> QuoteRow(df[i], ladder[i + 1], q)]

\* print(self._quotes_df.iloc[self._quotes_row, ].values)
QuoteValues(q) ==
    <<q.time_value, q.bid_price, q.bid_size, q.ask_price, q.ask_size>>

_update_quote ==
    LET q == Loc(quotes_df, quotes_row)
        reset == ResetNeeded(q)
        ladder == IF reset THEN NewLadder(q) ELSE price_ladder
        df == IF reset THEN ResetDf(ladder) ELSE price_ladder_df
    IN  /\ price_ladder' = ladder
        /\ price_ladder_df' = QuoteCells(df, ladder, q)
        /\ stdout' = Append(stdout, QuoteValues(q))
        /\ quotes_row' = Advance(quotes_row)
        /\ UNCHANGED <<quotes_df, trades_df, trades_row>>

(***************************************************************************)
(* _update_trade                                                           *)
(***************************************************************************)
\* A faulty variant of MatchedRow: the other side's aggregate is left in place.
MatchedRowKeepsOtherSide(row, t) ==
    IF Truthy(row[1])
    THEN [row EXCEPT
            ![0] = Str(IF Truthy(row[0]) THEN t.volume + IntOf(row[0])
                       ELSE t.volume)]
    ELSE IF Truthy(row[3])
    THEN [row EXCEPT
            ![4] = Str(IF Truthy(row[4]) THEN t.volume + IntOf(row[4])
                       ELSE t.volume)]
    ELSE row

\* A faulty variant of MatchedRow: the volume overwrites the aggregate.
MatchedRowOverwrites(row, t) ==
    IF Truthy(row[1])
    THEN [row EXCEPT ![0] = Str(t.volume), ![4] = ""]
    ELSE IF Truthy(row[3])
    THEN [row EXCEPT ![0] = "", ![4] = Str(t.volume)]
    ELSE row

\* A faulty variant of MatchedRow: a row with neither size loses its aggregate.
MatchedRowClearsUnquoted(row, t) ==
    IF Truthy(row[1])
    THEN [row EXCEPT
            ![0] = Str(IF Truthy(row[0]) THEN t.volume + IntOf(row[0])
                       ELSE t.volume),
            ![4] = ""]
    ELSE IF Truthy(row[3])
    THEN [row EXCEPT
            ![0] = "",
            ![4] = Str(IF Truthy(row[4]) THEN t.volume + IntOf(row[4])
                       ELSE t.volume)]
    ELSE [row EXCEPT ![0] = "", ![4] = ""]

\* One row whose level is close to the price of the trade.
MatchedRow(row, t) ==
    IF Truthy(row[1])
    THEN [row EXCEPT
            ![0] = Str(IF Truthy(row[0]) THEN t.volume + IntOf(row[0])
                       ELSE t.volume),
            ![4] = ""]
    ELSE IF Truthy(row[3])
    THEN [row EXCEPT
            ![0] = "",
            ![4] = Str(IF Truthy(row[4]) THEN t.volume + IntOf(row[4])
                       ELSE t.volume)]
    ELSE row

\* A faulty variant of UnmatchedRow: only column 4 is emptied.
UnmatchedRowKeepsBuys(row) == [row EXCEPT ![4] = ""]

\* A faulty variant of UnmatchedRow: the row is left as it is.
UnmatchedRowKept(row) == row

\* Any other row: iloc[i, [0, 4]] = ''.
UnmatchedRow(row) == [row EXCEPT ![0] = "", ![4] = ""]

TradeRow(row, level, t) ==
    IF IsClose(level, t.price) THEN MatchedRow(row, t) ELSE UnmatchedRow(row)

TradeCells(df, ladder, t) ==
    [i \in Rows |-> TradeRow(df[i], ladder[i + 1], t)]

\* print(self._trades_df.iloc[self._trades_row, ].values)
TradeValues(t) == <<t.time_value, t.price, t.volume>>

\* A faulty variant of _update_trade: the print and the cursor are under the
\* guard of line 179 as well.
_update_trade_all_guarded ==
    LET t == Loc(trades_df, trades_row)
    IN  /\ price_ladder_df' =
                IF quotes_row > 0
                THEN TradeCells(price_ladder_df, price_ladder, t)
                ELSE price_ladder_df
        /\ stdout' =
                IF quotes_row > 0 THEN Append(stdout, TradeValues(t))
                ELSE stdout
        /\ trades_row' =
                IF quotes_row > 0 THEN Advance(trades_row) ELSE trades_row
        /\ UNCHANGED <<quotes_df, trades_df, price_ladder, quotes_row>>

_update_trade ==
    LET t == Loc(trades_df, trades_row)
    IN  /\ price_ladder_df' =
            IF quotes_row > 0
            THEN TradeCells(price_ladder_df, price_ladder, t)
            ELSE price_ladder_df
        /\ stdout' = Append(stdout, TradeValues(t))
        /\ trades_row' = Advance(trades_row)
        /\ UNCHANGED <<quotes_df, trades_df, price_ladder, quotes_row>>

(***************************************************************************)
(* get_next_price_ladder_df, one action per way through it.                *)
(***************************************************************************)
ReturnNone ==
    /\ EndOfData
    /\ returned' = "None"
    /\ entry' = Entered("none")
    /\ UNCHANGED <<quotes_df, trades_df, price_ladder, price_ladder_df,
                   quotes_row, trades_row, stdout, snapshots>>

StepQuote ==
    /\ ~EndOfData
    /\ NextEvent = "quote"
    /\ _update_quote
    /\ returned' = "df"
    /\ snapshots' = snapshots + 1
    /\ entry' = Entered("quote")

StepTrade ==
    /\ ~EndOfData
    /\ NextEvent = "trade"
    /\ _update_trade
    /\ returned' = "df"
    /\ snapshots' = snapshots + 1
    /\ entry' = Entered("trade")

get_next_price_ladder_df == ReturnNone \/ StepQuote \/ StepTrade

\* The engine stepped by a caller of its own, without the two threads.
Next ==
    \/ ReturnNone /\ UNCHANGED threads
    \/ StepQuote /\ UNCHANGED threads
    \/ StepTrade /\ UNCHANGED threads

Spec == Init /\ [][Next]_vars

(***************************************************************************)
(* get_price_ladder_time_elapsed                                           *)
(***************************************************************************)
\* df.loc[row, 'time_value'] raises KeyError when row is no label of the
\* index 0 .. len(df) - 1.
HasRow(df, row) == row \in 0..(Length(df) - 1)

Min(a, b) == IF a < b THEN a ELSE b

\* The float 0.0 at the end of the data, a difference of two time values
\* otherwise.
get_price_ladder_time_elapsed ==
    IF EndOfData THEN Returns("float", 0)
    ELSE IF ~HasRow(quotes_df, 0) \/ ~HasRow(trades_df, 0)
    THEN Raises("KeyError")
    ELSE IF ~HasRow(quotes_df, quotes_row) \/ ~HasRow(trades_df, trades_row)
    THEN Raises("KeyError")
    ELSE Returns("Timedelta",
            Min(Loc(quotes_df, quotes_row).time_value,
                Loc(trades_df, trades_row).time_value)
            - Min(Loc(quotes_df, 0).time_value, Loc(trades_df, 0).time_value))

(***************************************************************************)
(* Worker.run and TableModel.update_logic: the worker thread.  The sleep   *)
(* that paces the animation changes no state.                              *)
(***************************************************************************)
engine == <<quotes_df, trades_df, price_ladder, price_ladder_df,
            quotes_row, trades_row, returned, stdout, snapshots, entry>>

\* The delay of lines 334-336 subtracts a Timedelta from the time elapsed.
\* From the float 0.0 the subtraction raises TypeError, unless the pandas at
\* hand takes a number for a Timedelta.
DelayOutcomes(time_elapsed) ==
    IF time_elapsed.type = "float" THEN {"paced", "TypeError"} ELSE {"paced"}

\* update_logic is entered, the time elapsed is computed and the delay slept.
TimeElapsedReturns ==
    /\ worker = "idle"
    /\ get_price_ladder_time_elapsed.raised = ""
    /\ elapsed' = get_price_ladder_time_elapsed
    /\ worker' \in DelayOutcomes(get_price_ladder_time_elapsed)
    /\ UNCHANGED <<engine, gui, mutex>>

\* The exception leaves update_logic and run: the thread ends.
TimeElapsedRaises ==
    /\ worker = "idle"
    /\ get_price_ladder_time_elapsed.raised /= ""
    /\ elapsed' = get_price_ladder_time_elapsed
    /\ worker' = get_price_ladder_time_elapsed.raised
    /\ UNCHANGED <<engine, gui, mutex>>

\* locker = QtCore.QMutexLocker(self._mutex) in update_logic.
UpdateLock ==
    /\ worker = "paced"
    /\ mutex = "free"
    /\ mutex' = "worker"
    /\ worker' = "locked"
    /\ UNCHANGED <<engine, gui, elapsed>>

\* get_next_price_ladder_df under the lock; the locker is released on return,
\* and run goes round again unless update_logic returned False.
UpdateStep ==
    /\ worker = "locked"
    /\ get_next_price_ladder_df
    /\ mutex' = "free"
    /\ worker' = IF returned' = "None" THEN "finished" ELSE "idle"
    /\ UNCHANGED <<gui, elapsed>>

(***************************************************************************)
(* TableModel.data with the display role: the GUI thread.                  *)
(***************************************************************************)
\* A faulty variant of DataMayLock: data takes no lock.
DataNeverWaits == TRUE

\* QMutexLocker blocks until the mutex is free.
DataMayLock == mutex = "free"

\* locker = QtCore.QMutexLocker(self._mutex) in data.
DataLock ==
    /\ gui = "idle"
    /\ DataMayLock
    /\ mutex' = "gui"
    /\ gui' = "reading"
    /\ UNCHANGED <<engine, worker, elapsed>>

\* The cell is read and returned, and the locker released.
DataRead ==
    /\ gui = "reading"
    /\ mutex' = "free"
    /\ gui' = "idle"
    /\ UNCHANGED <<engine, worker, elapsed>>

PlaybackNext ==
    \/ TimeElapsedReturns
    \/ TimeElapsedRaises
    \/ UpdateLock
    \/ UpdateStep
    \/ DataLock
    \/ DataRead

Playback == Init /\ [][PlaybackNext]_vars

(***************************************************************************)
(* Properties.  They read the call just made through entry: the fields it  *)
(* found, the update it applied, and the record it consumed.               *)
(***************************************************************************)
Called == entry.applied /= "nothing"

AppliedQuote == entry.applied = "quote"

AppliedTrade == entry.applied = "trade"

\* The record the call consumed.
EntryQuote == Loc(quotes_df, entry.quotes_row)

EntryTrade == Loc(trades_df, entry.trades_row)

QuotesLeftAtEntry == entry.quotes_row < Len(quotes_df)

TradesLeftAtEntry == entry.trades_row < Len(trades_df)

\* A printed row is a quote (five values) or a trade (three values).
IsQuoteRow(v) == Len(v) = 5

IsTradeRow(v) == Len(v) = 3

\* The grid was anchored when the call was entered.
AnchoredAtEntry == entry.quotes_row > 0

\* C1: with both streams sorted by non-decreasing timestamp, the events applied
\* by successive calls (the rows printed as they are applied) are
\* non-decreasing in timestamp.
C1_AppliedInTimeOrder ==
    \A i \in 1..(Len(stdout) - 1) : stdout[i][1] <= stdout[i + 1][1]

\* Quotes and trades were interleaved quote, trade, quote, trade over more
\* than one timestamp.
C1_Witness ==
    /\ Len(stdout) = 4
    /\ IsQuoteRow(stdout[1]) /\ IsTradeRow(stdout[2])
    /\ IsQuoteRow(stdout[3]) /\ IsTradeRow(stdout[4])
    /\ stdout[1][1] < stdout[4][1]

\* One stream was exhausted when the call was entered: the call applied the
\* next record of the other.
OtherStreamApplied ==
    /\ (QuotesLeftAtEntry /\ ~TradesLeftAtEntry) =>
            /\ AppliedQuote
            /\ quotes_row = entry.quotes_row + 1
            /\ trades_row = entry.trades_row
    /\ (TradesLeftAtEntry /\ ~QuotesLeftAtEntry) =>
            /\ AppliedTrade
            /\ trades_row = entry.trades_row + 1
            /\ quotes_row = entry.quotes_row

TiedAtEntry ==
    /\ QuotesLeftAtEntry
    /\ TradesLeftAtEntry
    /\ EntryQuote.time_value = EntryTrade.time_value

\* C2 as claimed: when the next quote and the next trade carry the same
\* timestamp the call applies the quote (quotes_row advances, trades_row does
\* not); when one stream is exhausted it applies the other's next record.
C2_QuoteFirstOnTie ==
    Called =>
        /\ TiedAtEntry =>
                /\ AppliedQuote
                /\ quotes_row = entry.quotes_row + 1
                /\ trades_row = entry.trades_row
        /\ OtherStreamApplied

\* C2 amended: when the next quote and the next trade carry the same
\* timestamp the call applies the trade (trades_row advances, quotes_row does
\* not); the quote goes first only when its timestamp is strictly smaller;
\* when one stream is exhausted the call applies the other's next record.
C2_TradeFirstOnTie ==
    Called =>
        /\ TiedAtEntry =>
                /\ AppliedTrade
                /\ trades_row = entry.trades_row + 1
                /\ quotes_row = entry.quotes_row
        /\ (QuotesLeftAtEntry /\ TradesLeftAtEntry
                /\ EntryQuote.time_value < EntryTrade.time_value) =>
                /\ AppliedQuote
                /\ quotes_row = entry.quotes_row + 1
                /\ trades_row = entry.trades_row
        /\ OtherStreamApplied

\* A call met a quote and a trade with the same timestamp, on an anchored
\* grid.
C2_Witness ==
    /\ Called
    /\ TiedAtEntry
    /\ AnchoredAtEntry
    /\ trades_row = entry.trades_row + 1

ExhaustedAtEntry ==
    /\ entry.quotes_row = Len(quotes_df)
    /\ entry.trades_row = Len(trades_df)

Exhausted == quotes_row = Len(quotes_df) /\ trades_row = Len(trades_df)

\* C3: a call returns None if and only if both cursors equal the lengths of
\* their streams; from then on the state stays exhausted, every call returns
\* None, and no cursor and no cell changes.
C3_NoneIffExhausted ==
    Called =>
        /\ (returned = "None") <=> ExhaustedAtEntry
        /\ ExhaustedAtEntry =>
                /\ Exhausted
                /\ quotes_row = entry.quotes_row
                /\ trades_row = entry.trades_row
                /\ price_ladder = entry.price_ladder
                /\ price_ladder_df = entry.price_ladder_df

\* A call was made after two quotes and two trades had been consumed, and
\* returned None.
C3_Witness ==
    /\ entry.applied = "none"
    /\ returned = "None"
    /\ Len(stdout) = 4
    /\ quotes_row = 2
    /\ trades_row = 2

\* C4: 0 <= quotes_row <= len(quotes_df) and 0 <= trades_row <=
\* len(trades_df); no cursor decreases; a call that returns the dataframe
\* advances exactly one cursor by exactly 1, so the dataframe is returned
\* len(quotes_df) + len(trades_df) times in all.
C4_CursorsAdvanceByOne ==
    /\ quotes_row \in 0..Len(quotes_df)
    /\ trades_row \in 0..Len(trades_df)
    /\ quotes_row >= entry.quotes_row
    /\ trades_row >= entry.trades_row
    /\ returned = "df" =>
            \/ /\ quotes_row = entry.quotes_row + 1
               /\ trades_row = entry.trades_row
            \/ /\ quotes_row = entry.quotes_row
               /\ trades_row = entry.trades_row + 1
    /\ snapshots = quotes_row + trades_row
    /\ snapshots <= Len(quotes_df) + Len(trades_df)
    /\ returned = "None" /\ Called =>
            snapshots = Len(quotes_df) + Len(trades_df)

\* Both streams had two records and the replay ran to its end: the dataframe
\* was returned four times, then None.
C4_Witness ==
    /\ Len(quotes_df) = 2
    /\ Len(trades_df) = 2
    /\ snapshots = 4
    /\ entry.applied = "none"

\* C5: no row has both column 0 and column 4 non-empty.
C5_OneSidePerRow ==
    \A i \in Rows :
        ~(Truthy(price_ladder_df[i][0]) /\ Truthy(price_ladder_df[i][4]))

\* A trade moved the aggregate of a row from column 0 to column 4.
C5_Witness ==
    /\ AppliedTrade
    /\ \E i \in Rows :
            /\ Truthy(entry.price_ladder_df[i][0])
            /\ Truthy(price_ladder_df[i][4])

\* The condition under which the claims say a quote re-anchors the grid: no
\* quote was applied before, or its ask lies more than half a tick above the
\* top level, or its bid more than half a tick below the bottom level.
OutsideWindowAtEntry ==
    \/ entry.quotes_row = 0
    \/ 2 * EntryQuote.ask_price > 2 * entry.price_ladder[1] + TickSize
    \/ 2 * EntryQuote.bid_price < 2 * entry.price_ladder[RowCount] - TickSize

\* The row the ask of a re-anchoring quote sits on.
AskRow == (RowCount - 1) \div 2

\* The levels of a window whose row AskRow is the price ask.
WindowAround(ask) ==
    [i \in 1..RowCount |-> ask + TickSize * AskRow - (i - 1) * TickSize]

\* The levels were regenerated around the ask of the quote, column 2 holds
\* their labels, and columns 0 and 4 of every row are empty (columns 1 and 3
\* are cleared too, and then written by the quote).
Reanchored ==
    /\ price_ladder = WindowAround(EntryQuote.ask_price)
    /\ \A i \in Rows :
            /\ price_ladder_df[i][2] = PriceFormat(price_ladder[i + 1])
            /\ price_ladder_df[i][0] = ""
            /\ price_ladder_df[i][4] = ""

\* The levels, column 2 and the aggregates are what they were.
WindowKept ==
    /\ price_ladder = entry.price_ladder
    /\ \A i \in Rows :
            /\ price_ladder_df[i][2] = entry.price_ladder_df[i][2]
            /\ price_ladder_df[i][0] = entry.price_ladder_df[i][0]
            /\ price_ladder_df[i][4] = entry.price_ladder_df[i][4]

\* C6: a call re-anchors the grid if and only if it applies a quote and either
\* no quote was applied before, or the ask is greater than the top level plus
\* half a tick, or the bid is less than the bottom level minus half a tick; no
\* trade and no quote inside the window changes the levels or column 2.
C6_ReanchorIffOutsideWindow ==
    /\ AppliedQuote => IF OutsideWindowAtEntry THEN Reanchored ELSE WindowKept
    /\ AppliedTrade =>
            /\ price_ladder = entry.price_ladder
            /\ \A i \in Rows :
                    price_ladder_df[i][2] = entry.price_ladder_df[i][2]

\* A later quote, with its ask more than half a tick above the top level,
\* re-anchored a grid that held an aggregate.
C6_Witness ==
    /\ AppliedQuote
    /\ AnchoredAtEntry
    /\ 2 * EntryQuote.ask_price > 2 * entry.price_ladder[1] + TickSize
    /\ \E i \in Rows :
            \/ Truthy(entry.price_ladder_df[i][0])
            \/ Truthy(entry.price_ladder_df[i][4])
    /\ price_ladder /= entry.price_ladder

\* C7: when a quote re-anchors the grid, level[i] = top_price - i * tick_size
\* with top_price = ask_price + tick_size * floor((row_count - 1) / 2), so the
\* ask sits on row floor((row_count - 1) / 2); afterwards column 3 holds
\* ask_size on exactly that row, column 1 holds bid_size on the row of
\* bid_price when bid_price is a level, and every other cell of columns 1 and
\* 3 and every cell of columns 0 and 4 is empty.
C7_AnchorAroundAsk ==
    (AppliedQuote /\ OutsideWindowAtEntry) =>
        LET q == EntryQuote
            top_price == q.ask_price + TickSize * ((RowCount - 1) \div 2)
        IN  /\ Len(price_ladder) = RowCount
            /\ price_ladder[AskRow + 1] = q.ask_price
            /\ \A i \in Rows :
                    /\ price_ladder[i + 1] = top_price - i * TickSize
                    /\ price_ladder_df[i][3] =
                            (IF i = AskRow THEN Str(q.ask_size) ELSE "")
                    /\ price_ladder_df[i][1] =
                            (IF price_ladder[i + 1] = q.bid_price
                             THEN Str(q.bid_size) ELSE "")
                    /\ price_ladder_df[i][0] = ""
                    /\ price_ladder_df[i][4] = ""

\* The second quote re-anchored the grid, with its ask and its bid on
\* different rows.
C7_Witness ==
    /\ AppliedQuote
    /\ entry.quotes_row = 1
    /\ OutsideWindowAtEntry
    /\ price_ladder /= entry.price_ladder
    /\ price_ladder_df[AskRow][3] = "5"
    /\ \E i \in Rows : i /= AskRow /\ price_ladder_df[i][1] = "10"

\* The number a cell holds, 0 when it is empty.
Held(cell) == IF cell = "" THEN 0 ELSE IntOf(cell)

\* The latest run of printed trades at one price starts at printed row
\* RunStart.
SamePriceTrade(v) == IsTradeRow(v) /\ v[2] = stdout[Len(stdout)][2]

RunStart ==
    CHOOSE j \in 1..Len(stdout) :
        /\ \A i \in j..Len(stdout) : SamePriceTrade(stdout[i])
        /\ j > 1 => ~SamePriceTrade(stdout[j - 1])

RECURSIVE VolumeFrom(_)
VolumeFrom(j) ==
    IF j > Len(stdout) THEN 0 ELSE stdout[j][3] + VolumeFrom(j + 1)

\* The run started on empty aggregates: what came before it is the first
\* quote, or a trade at another price applied on the anchored grid.
RunStartedEmpty ==
    /\ RunStart > 1
    /\ quotes_row > 0
    /\ \/ IsTradeRow(stdout[RunStart - 1])
       \/ quotes_row = 1

OffWindowTrade ==
    /\ AppliedTrade
    /\ AnchoredAtEntry
    /\ \A r \in Rows : entry.price_ladder[r + 1] /= EntryTrade.price

OnlyTradesRowAdvanced ==
    /\ trades_row = entry.trades_row + 1
    /\ quotes_row = entry.quotes_row
    /\ price_ladder = entry.price_ladder

\* C9 as claimed: a trade applied on an anchored grid whose price matches no
\* level of the window mutates no cell of any row; only trades_row advances.
C9_OffWindowTradeMutatesNothing ==
    OffWindowTrade =>
        /\ price_ladder_df = entry.price_ladder_df
        /\ OnlyTradesRowAdvanced

\* C9 amended: such a trade empties columns 0 and 4 of every row, so any
\* aggregate recorded before it is lost, and leaves columns 1, 2 and 3 of
\* every row as they were; of the cursors only trades_row advances.
C9_OffWindowTradeClearsAggregates ==
    OffWindowTrade =>
        /\ \A r \in Rows :
                price_ladder_df[r] =
                    [entry.price_ladder_df[r] EXCEPT ![0] = "", ![4] = ""]
        /\ OnlyTradesRowAdvanced

\* A trade off the window was applied on a grid that held an aggregate.
C9_Witness ==
    /\ OffWindowTrade
    /\ \E r \in Rows :
            \/ Truthy(entry.price_ladder_df[r][0])
            \/ Truthy(entry.price_ladder_df[r][4])

\* Row r matched the trade and held neither a bid size nor an ask size.
UnquotedMatch(r) ==
    /\ AppliedTrade
    /\ AnchoredAtEntry
    /\ entry.price_ladder[r + 1] = EntryTrade.price
    /\ entry.price_ladder_df[r][1] = ""
    /\ entry.price_ladder_df[r][3] = ""

\* C10 as claimed: when the price of a trade matches row r and columns 1 and 3
\* of r are empty, the trade leaves columns 0 and 4 of r empty: an aggregate
\* held on r is cleared.
C10_UnquotedMatchCleared ==
    \A r \in Rows :
        UnquotedMatch(r) =>
            /\ price_ladder_df[r][0] = ""
            /\ price_ladder_df[r][4] = ""

\* C10 amended: when the price of a trade matches row r and columns 1 and 3
\* of r are empty, the trade leaves every column of r as it was: an aggregate
\* held on r in column 0 or 4 is preserved, not cleared.
C10_UnquotedMatchPreserved ==
    \A r \in Rows :
        UnquotedMatch(r) => price_ladder_df[r] = entry.price_ladder_df[r]

\* A trade matched a row that held an aggregate and neither size.
C10_Witness ==
    \E r \in Rows :
        /\ UnquotedMatch(r)
        /\ \/ Truthy(entry.price_ladder_df[r][0])
           \/ Truthy(entry.price_ladder_df[r][4])

\* A row carries aggregated trade volume.
HasAggregate(row) == Truthy(row[0]) \/ Truthy(row[4])

\* C11: a trade applied while no quote has been applied yet (quotes_row = 0,
\* no price levels) changes no cell and creates no levels; it advances
\* trades_row by 1 and nothing else, and the call still returns the dataframe,
\* all of whose cells are empty, not None.
C11_TradeBeforeQuoteOnlyAdvances ==
    (AppliedTrade /\ entry.quotes_row = 0) =>
        /\ price_ladder_df = entry.price_ladder_df
        /\ price_ladder_df = EmptyDf
        /\ entry.price_ladder = None
        /\ price_ladder = None
        /\ trades_row = entry.trades_row + 1
        /\ quotes_row = 0
        /\ returned = "df"

\* The second of two trades was applied before the first of the quotes.
C11_Witness ==
    /\ AppliedTrade
    /\ entry.quotes_row = 0
    /\ entry.trades_row = 1
    /\ Len(quotes_df) > 0
    /\ returned = "df"

\* C12: a quote that does not re-anchor the grid leaves columns 0, 2 and 4 of
\* every row and the levels as they were, so aggregated volume survives it; it
\* writes columns 1 and 3 only, and of the cursors it advances quotes_row only.
C12_QuoteInsideWindowKeepsAggregates ==
    (AppliedQuote /\ ~OutsideWindowAtEntry) =>
        /\ \A i \in Rows :
                /\ price_ladder_df[i][0] = entry.price_ladder_df[i][0]
                /\ price_ladder_df[i][2] = entry.price_ladder_df[i][2]
                /\ price_ladder_df[i][4] = entry.price_ladder_df[i][4]
        /\ price_ladder = entry.price_ladder
        /\ quotes_row = entry.quotes_row + 1
        /\ trades_row = entry.trades_row

\* A quote inside the window took the bid and the ask away from a row that
\* held an aggregate.
C12_Witness ==
    /\ AppliedQuote
    /\ ~OutsideWindowAtEntry
    /\ \E i \in Rows :
            /\ HasAggregate(entry.price_ladder_df[i])
            /\ HasAggregate(price_ladder_df[i])
            /\ \/ Truthy(entry.price_ladder_df[i][1])
               \/ Truthy(entry.price_ladder_df[i][3])
            /\ price_ladder_df[i][1] = ""
            /\ price_ladder_df[i][3] = ""

\* The window the claims speak of: price is strictly within half a tick of
\* level, and price is farther than half a tick from every level.
WithinHalfTick(price, level) == 2 * Abs(price - level) < TickSize

BeyondHalfTick(price, ladder) ==
    \A i \in Rows : 2 * Abs(price - ladder[i + 1]) > TickSize

\* A trade was projected onto a row: the aggregate on the side of the size the
\* row shows grew by the volume of the trade.
TradeProjected(before, after, t) ==
    /\ Truthy(before[1]) => after[0] = Str(t.volume + Held(before[0]))
    /\ (~Truthy(before[1]) /\ Truthy(before[3])) =>
            after[4] = Str(t.volume + Held(before[4]))

\* A trade was not projected onto a row: the row was handled as one whose
\* level does not match, its columns 0 and 4 emptied.
TradeNotProjected(before, after) ==
    after = [before EXCEPT ![0] = "", ![4] = ""]

\* C15 as claimed: a bid, an ask or a trade price p is projected onto row i
\* whenever |p - level[i]| < tick_size / 2, and onto no row when p is farther
\* than tick_size / 2 from every level.
C15_HalfTickTolerance ==
    /\ AppliedQuote =>
            \A i \in Rows :
                /\ WithinHalfTick(EntryQuote.ask_price, price_ladder[i + 1])
                        => price_ladder_df[i][3] = Str(EntryQuote.ask_size)
                /\ WithinHalfTick(EntryQuote.bid_price, price_ladder[i + 1])
                        => price_ladder_df[i][1] = Str(EntryQuote.bid_size)
                /\ BeyondHalfTick(EntryQuote.ask_price, price_ladder)
                        => price_ladder_df[i][3] = ""
                /\ BeyondHalfTick(EntryQuote.bid_price, price_ladder)
                        => price_ladder_df[i][1] = ""
    /\ (AppliedTrade /\ AnchoredAtEntry) =>
            \A r \in Rows :
                /\ WithinHalfTick(EntryTrade.price, price_ladder[r + 1])
                        => TradeProjected(entry.price_ladder_df[r],
                                          price_ladder_df[r], EntryTrade)
                /\ BeyondHalfTick(EntryTrade.price, price_ladder)
                        => TradeNotProjected(entry.price_ladder_df[r],
                                             price_ladder_df[r])

\* C15 amended: a bid, an ask or a trade price is projected onto row i only
\* when it equals level[i] within the relative tolerance 1e-9 of
\* math.isclose, which for prices on the grid of thirds of a tick is
\* equality; a price that differs from every level, be it by less than half a
\* tick, is projected onto no row.
C15_ExactLevelOnly ==
    /\ AppliedQuote =>
            \A i \in Rows :
                /\ price_ladder_df[i][3] =
                        IF price_ladder[i + 1] = EntryQuote.ask_price
                        THEN Str(EntryQuote.ask_size) ELSE ""
                /\ price_ladder_df[i][1] =
                        IF price_ladder[i + 1] = EntryQuote.bid_price
                        THEN Str(EntryQuote.bid_size) ELSE ""
    /\ (AppliedTrade /\ AnchoredAtEntry) =>
            \A r \in Rows :
                IF price_ladder[r + 1] = EntryTrade.price
                THEN TradeProjected(entry.price_ladder_df[r],
                                    price_ladder_df[r], EntryTrade)
                ELSE TradeNotProjected(entry.price_ladder_df[r],
                                       price_ladder_df[r])

\* A quote whose ask lies a third of a tick from a level was applied without
\* re-anchoring, and its ask size is on no row.
C15_Witness ==
    /\ AppliedQuote
    /\ price_ladder = entry.price_ladder
    /\ \E i \in Rows :
        /\ WithinHalfTick(EntryQuote.ask_price, price_ladder[i + 1])
        /\ EntryQuote.ask_price /= price_ladder[i + 1]
    /\ \A i \in Rows : price_ladder_df[i][3] = ""

\* The grid is anchored: the levels are set and column 2 of every row is
\* non-empty.
Anchored ==
    /\ price_ladder /= None
    /\ Len(price_ladder) = RowCount
    /\ \A i \in Rows : price_ladder_df[i][2] /= ""

\* C16: the grid is anchored if and only if quotes_row > 0; before the first
\* quote there are no levels and every cell is empty; a grid that was anchored
\* when a call was entered is anchored after it, the call that finds the
\* streams exhausted included.
C16_AnchoredIffQuoted ==
    /\ Anchored <=> quotes_row > 0
    /\ quotes_row = 0 =>
            /\ price_ladder = None
            /\ price_ladder_df = EmptyDf
    /\ (Called /\ AnchoredAtEntry) => Anchored

\* Trades were applied before the first quote on a grid with no levels and all
\* cells empty; the grid was anchored later and still is after the call that
\* found both streams exhausted.
C16_Witness ==
    /\ Len(stdout) > 2
    /\ IsTradeRow(stdout[1])
    /\ IsQuoteRow(stdout[2])
    /\ entry.applied = "none"
    /\ Anchored

\* C19: after a trade applied on an anchored grid, columns 0 and 4 are empty on
\* every row whose level does not match the price of the trade; in every
\* reachable state at most one row carries aggregated trade volume.
C19_OneRowAggregates ==
    /\ (AppliedTrade /\ AnchoredAtEntry) =>
            \A r \in Rows :
                price_ladder[r + 1] /= EntryTrade.price =>
                    /\ price_ladder_df[r][0] = ""
                    /\ price_ladder_df[r][4] = ""
    /\ Cardinality({r \in Rows : HasAggregate(price_ladder_df[r])}) <= 1

\* A trade put an aggregate on one row and emptied the aggregate that another
\* row held.
C19_Witness ==
    /\ AppliedTrade
    /\ \E r1, r2 \in Rows :
            /\ r1 /= r2
            /\ HasAggregate(entry.price_ladder_df[r1])
            /\ ~HasAggregate(price_ladder_df[r1])
            /\ ~HasAggregate(entry.price_ladder_df[r2])
            /\ HasAggregate(price_ladder_df[r2])

\* The quote applied last.
LastQuote == Loc(quotes_df, quotes_row - 1)

\* C20: once a quote has been applied, column 3 holds the ask size of the quote
\* applied last on the row whose level matches its ask price and is empty on
\* every other row, and column 1 holds its bid size on the row whose level
\* matches its bid price and is empty on every other row; a trade changes no
\* cell of columns 1, 2 and 3.
C20_SizesOfLastQuote ==
    /\ quotes_row > 0 =>
            \A i \in Rows :
                /\ price_ladder_df[i][3] =
                        IF price_ladder[i + 1] = LastQuote.ask_price
                        THEN Str(LastQuote.ask_size) ELSE ""
                /\ price_ladder_df[i][1] =
                        IF price_ladder[i + 1] = LastQuote.bid_price
                        THEN Str(LastQuote.bid_size) ELSE ""
    /\ AppliedTrade =>
            \A i \in Rows :
                /\ price_ladder_df[i][1] = entry.price_ladder_df[i][1]
                /\ price_ladder_df[i][2] = entry.price_ladder_df[i][2]
                /\ price_ladder_df[i][3] = entry.price_ladder_df[i][3]

\* The second quote moved the ask to another row of the window the first quote
\* made, and a trade was applied after it on the row of that ask.
C20_Witness ==
    /\ AppliedTrade
    /\ entry.quotes_row = 2
    /\ price_ladder = WindowAround(Loc(quotes_df, 0).ask_price)
    /\ LastQuote.ask_price /= Loc(quotes_df, 0).ask_price
    /\ \E i \in Rows :
            /\ price_ladder[i + 1] = LastQuote.ask_price
            /\ price_ladder[i + 1] = EntryTrade.price
            /\ price_ladder_df[i][3] = Str(LastQuote.ask_size)
            /\ HasAggregate(price_ladder_df[i])

(***************************************************************************)
(* The playback loop and the two threads                                   *)
(***************************************************************************)
\* The cursors are where the latest call of get_price_ladder_time_elapsed
\* found them.
TimeElapsedCalled == worker \in {"paced", "locked", "KeyError", "TypeError"}

\* The timestamps of the next record of each stream that has one, and of the
\* first record of each stream that is not empty.
UnconsumedTimes ==
    {Loc(quotes_df, r).time_value : r \in {quotes_row} \cap 0..(Len(quotes_df) - 1)}
        \cup
    {Loc(trades_df, r).time_value : r \in {trades_row} \cap 0..(Len(trades_df) - 1)}

FirstTimes ==
    {Loc(quotes_df, r).time_value : r \in {0} \cap 0..(Len(quotes_df) - 1)}
        \cup
    {Loc(trades_df, r).time_value : r \in {0} \cap 0..(Len(trades_df) - 1)}

Earliest(times) == CHOOSE t \in times : \A u \in times : t <= u

\* C13 as claimed: get_price_ladder_time_elapsed returns 0 when both streams
\* are exhausted, and in every other state, those with exactly one stream
\* exhausted or empty included, it raises nothing and returns the earliest
\* timestamp among the unconsumed next records minus the earliest timestamp
\* among the first records.
C13_TimeElapsedNeverRaises ==
    TimeElapsedCalled =>
        /\ elapsed.raised = ""
        /\ elapsed.value =
                IF Exhausted THEN 0
                ELSE Earliest(UnconsumedTimes) - Earliest(FirstTimes)

\* The worker thread has ended on an exception.
Aborted == worker \in {"KeyError", "TypeError"}

\* C17 as claimed: with both streams non-empty, the worker thread does not end
\* on an exception before both cursors have reached the ends of their
\* streams, and it stops, update_logic having returned False, only when they
\* have.
C17_PlaybackNeverAborts ==
    (Len(quotes_df) > 0 /\ Len(trades_df) > 0) =>
        /\ Aborted => Exhausted
        /\ worker = "finished" => (Exhausted /\ returned = "None")

\* C18: the GUI thread reads a cell in data only while it holds the mutex, the
\* worker thread is inside get_next_price_ladder_df, the one place the grid is
\* written, only while it holds the mutex, and the two never hold it
\* together: no read falls between the start and the end of a step.
C18_ReadsExcludeSteps ==
    /\ ~(gui = "reading" /\ worker = "locked")
    /\ gui = "reading" <=> mutex = "gui"
    /\ worker = "locked" <=> mutex = "worker"

\* After a completed step, the GUI thread reads a cell of the grid the step
\* returned while the worker thread waits for the mutex to make the next one.
C18_Witness ==
    /\ gui = "reading"
    /\ worker = "paced"
    /\ snapshots > 0
    /\ returned = "df"
    /\ price_ladder_df /= EmptyDf

====
